---- MODULE Spec2Model ----
\* Model of jpush/push/payload.py: the payload builders of the JPush client
\* (notification, ios, android, winphone, message, smsmessage, cid, platform,
\* options, audience), as run by a Python 3 interpreter.
EXTENDS Integers, Sequences, FiniteSets, TLC

VARIABLES op, args, ret, heap, hist

vars == <<op, args, ret, heap, hist>>

\* ---------------------------------------------------------------- bounds

\* Longest badge string drawn ("auto" plus one more character is 5).
MaxBadgeLen == 5
\* Longest argument list of platform(*types) and audience(*types).
MaxTypes == 3
\* Longest argument list of platform / audience in call sequences.
MaxSeqTypes == 2

\* ------------------------------------------------------- Python values

\* A Python value: its type tag, its number (int, bool, float, or the
\* identity of a dict / list object) and its characters (str).
V(t, i, s) == [t |-> t, i |-> i, s |-> s]

None == V("none", 0, <<>>)
BoolV(b) == V("bool", IF b THEN 1 ELSE 0, <<>>)
IntV(n) == V("int", n, <<>>)
FloatV(n) == V("float", n, <<>>)
StrV(s) == V("str", 0, s)
DictV(id) == V("dict", id, <<>>)
ListV(id) == V("list", id, <<>>)

NL == "\n"

S_empty == StrV(<<>>)
S_hi == StrV(<<"h", "i">>)
S_x == StrV(<<"x">>)
S_plus1 == StrV(<<"+", "1">>)
S_default == StrV(<<"d", "e", "f", "a", "u", "l", "t">>)
S_all == StrV(<<"a", "l", "l">>)
S_ios == StrV(<<"i", "o", "s">>)
S_android == StrV(<<"a", "n", "d", "r", "o", "i", "d">>)
S_winphone == StrV(<<"w", "i", "n", "p", "h", "o", "n", "e">>)
S_symbian == StrV(<<"s", "y", "m", "b", "i", "a", "n">>)

\* One entry of a dict object: insertion order is the order of the sequence.
KV(k, v) == [k |-> k, v |-> v]

\* The dict objects the caller owns and passes by reference: audience
\* fragments (as tag(...), alias(...) build them), extras, override blocks.
Heap0 ==
    <<  <<KV("tag", ListV(1))>>,
        <<KV("tag", ListV(2))>>,
        <<KV("tag_and", ListV(1))>>,
        <<KV("alias", ListV(3)), KV("tag", ListV(3))>>,
        <<KV("bogus", ListV(1))>>,
        <<>>,
        <<KV("segment", ListV(1)), KV("bogus", ListV(2))>>  >>

\* bool(v) of Python: None, False, 0, 0.0, '' and empty containers are falsy.
Truthy(h, v) ==
    CASE v.t = "none" -> FALSE
      [] v.t \in {"bool", "int", "float"} -> v.i # 0
      [] v.t = "str" -> v.s # <<>>
      [] v.t = "dict" -> h[v.i] # <<>>
      [] OTHER -> TRUE

\* isinstance(v, int): bool is a subclass of int.
IsInt(v) == v.t \in {"int", "bool"}
IsStr(v) == v.t = "str"
IsDict(v) == v.t = "dict"

\* ------------------------------------------------------------ payloads

\* payload = {}
EmptyMap == [x \in {} |-> None]

\* payload[k] = v
Put(m, k, v) == [x \in (DOMAIN m) \cup {k} |-> IF x = k THEN v ELSE m[x]]

\* if v is not None: payload[k] = v
PutIfSet(m, k, v) == IF v # None THEN Put(m, k, v) ELSE m

\* ------------------------------------------------------------- results

Pending ==
    [st |-> "pending", kind |-> "none", map |-> EmptyMap, list |-> <<>>,
     val |-> None, msg |-> "", bad |-> None]

\* return payload
OkMap(m) == [Pending EXCEPT !.st = "ok", !.kind = "map", !.map = m]
\* return [t for t in types]
OkList(l) == [Pending EXCEPT !.st = "ok", !.kind = "list", !.list = l]
\* return 'all'
OkVal(v) == [Pending EXCEPT !.st = "ok", !.kind = "val", !.val = v]
\* raise ValueError(msg % bad)
Raise(msg, bad) == [Pending EXCEPT !.st = "ValueError", !.msg = msg, !.bad = bad]

\* ------------------------------------------------------- notification

\* Variant of notification_empty: the emptiness test left out.
notification_empty_mut(payload) == FALSE

\* `not payload`
notification_empty(payload) == DOMAIN payload = {}

notification(alert, ios_, android_, winphone_) ==
    LET p1 == PutIfSet(EmptyMap, "alert", alert)
        p2 == PutIfSet(p1, "ios", ios_)
        p3 == PutIfSet(p2, "android", android_)
        payload == PutIfSet(p3, "winphone", winphone_)
    IN  IF notification_empty(payload)
        THEN Raise("Notification body may not be empty", None)
        ELSE OkMap(payload)

\* ---------------------------------------------------------------- ios

\* The characters \d matches that the badge strings drawn here can hold.
Digits == {"0", "1", "2", "3", "4", "5", "6", "7", "8", "9"}

\* The body of the pattern between ^ and $: auto|[+-][\d]+
AutobadgeBody(s) ==
    \/ s = <<"a", "u", "t", "o">>
    \/ /\ Len(s) >= 2
       /\ s[1] \in {"+", "-"}
       /\ \A i \in 2..Len(s) : s[i] \in Digits

\* Where $ matches without re.MULTILINE: at the end of the string, and just
\* before a newline that is the last character of the string.
DollarPositions(s) ==
    {Len(s)} \cup (IF Len(s) > 0 /\ s[Len(s)] = NL THEN {Len(s) - 1} ELSE {})

\* VALID_AUTOBADGE.match(badge) is not None
VALID_AUTOBADGE_match(s) ==
    \E e \in DollarPositions(s) : AutobadgeBody(SubSeq(s, 1, e))

\* Variant of ios_sound: sound_disable only suppresses the default sound.
ios_sound_mut(payload, sound, sound_disable_truthy) ==
    IF sound # None
    THEN Put(payload, "sound", sound)
    ELSE IF ~sound_disable_truthy THEN Put(payload, "sound", S_default) ELSE payload

\* if not sound_disable: payload['sound'] = sound or 'default' when None
ios_sound(payload, sound, sound_disable_truthy) ==
    IF ~sound_disable_truthy
    THEN IF sound # None
         THEN Put(payload, "sound", sound)
         ELSE Put(payload, "sound", S_default)
    ELSE payload

\* Variant of ios_flag: the flag always written, as 1 or 0.
ios_flag_mut(payload, key, flag_truthy) ==
    Put(payload, key, IntV(IF flag_truthy THEN 1 ELSE 0))

\* if content_available: payload['content-available'] = 1 (and mutable-content)
ios_flag(payload, key, flag_truthy) ==
    IF flag_truthy THEN Put(payload, key, IntV(1)) ELSE payload

ios(h, alert, badge, sound, content_available, mutable_content, category, extras, sound_disable) ==
    IF alert # None /\ ~(IsStr(alert) \/ IsDict(alert))
    THEN Raise("iOS alert must be a string or dictionary", None)
    ELSE IF badge # None /\ ~(IsStr(badge) \/ IsInt(badge))
    THEN Raise("iOS badge must be an integer or string", None)
    ELSE IF badge # None /\ IsStr(badge) /\ ~VALID_AUTOBADGE_match(badge.s)
    THEN Raise("Invalid iOS autobadge value", None)
    ELSE LET p1 == PutIfSet(EmptyMap, "alert", alert)
             p2 == PutIfSet(p1, "badge", badge)
             p3 == ios_sound(p2, sound, Truthy(h, sound_disable))
             p4 == ios_flag(p3, "content-available", Truthy(h, content_available))
             p5 == ios_flag(p4, "mutable-content", Truthy(h, mutable_content))
             p6 == IF Truthy(h, category) THEN Put(p5, "category", category) ELSE p5
             payload == PutIfSet(p6, "extras", extras)
         IN  OkMap(payload)

\* ------------------------------------------------------------ android

\* Variant of android_alert: `if alert:` in place of `if alert is not None:`.
android_alert_mut(payload, alert) == IF alert.s # <<>> THEN Put(payload, "alert", alert) ELSE payload

\* if alert is not None: payload['alert'] = alert
android_alert(payload, alert) == PutIfSet(payload, "alert", alert)

android(alert, title, builder_id, extras, priority, category, style, alert_type, big_text, inbox, big_pic_path, uri_activity) ==
    LET p1 == android_alert(EmptyMap, alert)
        p2 == PutIfSet(p1, "title", title)
        p3 == PutIfSet(p2, "builder_id", builder_id)
        p4 == PutIfSet(p3, "priority", priority)
        p5 == PutIfSet(p4, "category", category)
        p6 == PutIfSet(p5, "style", style)
        p7 == PutIfSet(p6, "alert_type", alert_type)
        p8 == PutIfSet(p7, "big_text", big_text)
        p9 == PutIfSet(p8, "inbox", inbox)
        p10 == PutIfSet(p9, "big_pic_path", big_pic_path)
        p11 == PutIfSet(p10, "uri_activity", uri_activity)
        payload == PutIfSet(p11, "extras", extras)
    IN  OkMap(payload)

\* ----------------------------------------------------------- winphone

\* len(list(filter(None, (alert, _open_page, title)))): filter(None, ...)
\* keeps the truthy elements.
winphone_count(h, alert, title, _open_page) ==
    Cardinality({i \in 1..3 : Truthy(h, <<alert, _open_page, title>>[i])})

winphone(h, alert, title, _open_page, extras) ==
    IF winphone_count(h, alert, title, _open_page) # 1
    THEN Raise("MPNS payload must have one notification type.", None)
    ELSE LET p1 == PutIfSet(EmptyMap, "alert", alert)
             p2 == PutIfSet(p1, "title", title)
             p3 == PutIfSet(p2, "_open_page", _open_page)
             payload == PutIfSet(p3, "extras", extras)
         IN  OkMap(payload)

\* ------------------------------------- message, smsmessage, cid, options

message(msg_content, title, content_type, extras) ==
    LET p1 == Put(EmptyMap, "msg_content", msg_content)
        p2 == PutIfSet(p1, "title", title)
        p3 == PutIfSet(p2, "content_type", content_type)
        payload == PutIfSet(p3, "extras", extras)
    IN  OkMap(payload)

smsmessage(content, delay_time) ==
    OkMap(Put(Put(EmptyMap, "content", content), "delay_time", delay_time))

cid(cid_) == OkMap(Put(EmptyMap, "cid", cid_))

options(options_) == OkMap(Put(EmptyMap, "options", options_))

\* ----------------------------------------------------------- platform

PLATFORMS == {S_ios, S_android, S_winphone}

\* Variant of platform_valid: the membership test left out.
platform_valid_mut(t) == TRUE

\* t in ('ios', 'android', 'winphone')
platform_valid(t) == t \in PLATFORMS

\* for t in types: if t not in (...): raise ValueError("Invalid platform '%s'" % t)
RECURSIVE platform_loop(_, _)
platform_loop(types, i) ==
    IF i > Len(types)
    THEN OkList([k \in 1..Len(types) |-> types[k]])
    ELSE IF ~platform_valid(types[i])
         THEN Raise("Invalid platform", types[i])
         ELSE platform_loop(types, i + 1)

platform(types) ==
    IF Len(types) = 1 /\ types[1] = S_all
    THEN OkVal(S_all)
    ELSE platform_loop(types, 1)

\* ----------------------------------------------------------- audience

AUDIENCE_KEYS ==
    {"tag", "tag_and", "tag_not", "alias", "registration_id", "segment", "abtest"}

\* `for key in t`: the keys of a dict in insertion order, the characters
\* of a str.
Iter(h, t) ==
    IF IsDict(t) THEN [j \in 1..Len(h[t.i]) |-> h[t.i][j].k] ELSE t.s

\* t[key] for a key that `for key in t` produced from dict t
GetItem(h, t, key) ==
    LET d == h[t.i]
        j == CHOOSE x \in 1..Len(d) : d[x].k = key
    IN  d[j].v

\* d[key] = val, on a dict object
SetItem(d, key, val) ==
    IF \E x \in 1..Len(d) : d[x].k = key
    THEN [x \in 1..Len(d) |-> IF d[x].k = key THEN KV(key, val) ELSE d[x]]
    ELSE Append(d, KV(key, val))

\* Variant of audience_store: a key already stored is kept.
audience_store_first_wins(acc, key, val) ==
    IF key \in DOMAIN acc THEN acc ELSE Put(acc, key, val)

\* audience[key] = t[key]: what the local dict `audience` holds afterwards
audience_store(acc, key, val) == Put(acc, key, val)

\* Variant of audience_heap: `audience = types[0]` in place of `audience = {}`.
audience_heap_aliased(h, types, key, val) ==
    IF IsDict(types[1])
    THEN [h EXCEPT ![types[1].i] = SetItem(h[types[1].i], key, val)]
    ELSE h

\* audience[key] = t[key]: what the caller's objects hold afterwards; the
\* store goes to the dict created by `audience = {}`, which no argument
\* refers to.
audience_heap(h, types, key, val) == h

RECURSIVE audience_loop(_, _, _, _, _)
audience_loop(h, types, i, j, acc) ==
    IF i > Len(types)
    THEN [ret |-> OkMap(acc), heap |-> h]
    ELSE LET t == types[i]
             keys == Iter(h, t)
         IN  IF j > Len(keys)
             THEN audience_loop(h, types, i + 1, 1, acc)
             ELSE IF keys[j] \notin AUDIENCE_KEYS
                  THEN [ret |-> Raise("Invalid audience", t), heap |-> h]
                  ELSE LET val == GetItem(h, t, keys[j])
                       IN  audience_loop(audience_heap(h, types, keys[j], val),
                                         types, i, j + 1,
                                         audience_store(acc, keys[j], val))

audience(h, types) ==
    IF Len(types) = 1 /\ types[1] = S_all
    THEN [ret |-> OkVal(S_all), heap |-> h]
    ELSE audience_loop(h, types, 1, 1, EmptyMap)

\* ------------------------------------------------- the calls checked

\* All sequences over S of length at most n.
SeqsUpTo(S, n) == UNION {[1..k -> S] : k \in 0..n}

\* The characters badge strings are drawn from.
BadgeAlphabet == {"a", "u", "t", "o", "+", "-", "1", NL}

NotificationCalls ==
    [alert : {None, S_empty, S_hi},
     ios : {None, DictV(1), DictV(6)},
     android : {None, DictV(1), DictV(6)},
     winphone : {None, DictV(1), DictV(6)}]

IosCalls ==
    [alert : {None, S_empty, S_hi, DictV(1), IntV(5)},
     badge : {None, S_plus1, S_x, IntV(0), BoolV(TRUE), FloatV(1)},
     sound : {None, S_empty, S_x},
     content_available : {BoolV(FALSE), BoolV(TRUE), IntV(0)},
     mutable_content : {BoolV(FALSE), BoolV(TRUE), S_empty},
     category : {None, S_empty, S_x},
     extras : {None, DictV(6)},
     sound_disable : {BoolV(FALSE), BoolV(TRUE), IntV(0)}]

\* ios(badge=s) for every string s over BadgeAlphabet up to MaxBadgeLen.
IosBadgeCalls ==
    [alert : {None},
     badge : {StrV(s) : s \in SeqsUpTo(BadgeAlphabet, MaxBadgeLen)},
     sound : {None},
     content_available : {BoolV(FALSE)},
     mutable_content : {BoolV(FALSE)},
     category : {None},
     extras : {None},
     sound_disable : {BoolV(FALSE)}]

AndroidCalls ==
    [alert : {None, S_empty, S_hi},
     title : {None, S_empty, S_x},
     builder_id : {None, IntV(0), IntV(1)},
     extras : {None, DictV(6)},
     priority : {None, IntV(0)},
     category : {None, S_empty},
     style : {None, IntV(0)},
     alert_type : {None, IntV(0)},
     big_text : {None, S_empty},
     inbox : {None, DictV(6)},
     big_pic_path : {None, S_empty},
     uri_activity : {None, BoolV(FALSE)}]

WinphoneCalls ==
    [alert : {None, S_empty, S_x, IntV(0)},
     title : {None, S_empty, S_x, IntV(0)},
     _open_page : {None, S_empty, S_x, IntV(0)},
     extras : {None, DictV(1), DictV(6)}]

MessageCalls ==
    [msg_content : {None, S_empty, S_hi},
     title : {None, S_empty, S_x},
     content_type : {None, S_x},
     extras : {None, DictV(1)}]

SmsmessageCalls == [content : {None, S_hi}, delay_time : {None, IntV(0), IntV(5)}]

CidCalls == [cid : {None, S_empty, S_x}]

OptionsCalls == [options : {None, DictV(1), DictV(6)}]

PlatformCalls ==
    [types : SeqsUpTo({S_all, S_ios, S_android, S_winphone, S_symbian}, MaxTypes)]

AudienceCalls ==
    [types : SeqsUpTo({S_all, S_empty} \cup {DictV(d) : d \in DOMAIN Heap0}, MaxTypes)]

\* ----------------------------------------------- one call, as a whole

\* Each builder applied to an argument record a with the caller's objects
\* h: its result, and the caller's objects afterwards.
Run_notification(h, a) ==
    [ret |-> notification(a.alert, a.ios, a.android, a.winphone), heap |-> h]

Run_ios(h, a) ==
    [ret |-> ios(h, a.alert, a.badge, a.sound, a.content_available,
                 a.mutable_content, a.category, a.extras, a.sound_disable),
     heap |-> h]

Run_android(h, a) ==
    [ret |-> android(a.alert, a.title, a.builder_id, a.extras, a.priority,
                     a.category, a.style, a.alert_type, a.big_text, a.inbox,
                     a.big_pic_path, a.uri_activity),
     heap |-> h]

Run_winphone(h, a) ==
    [ret |-> winphone(h, a.alert, a.title, a._open_page, a.extras), heap |-> h]

Run_message(h, a) ==
    [ret |-> message(a.msg_content, a.title, a.content_type, a.extras), heap |-> h]

Run_smsmessage(h, a) == [ret |-> smsmessage(a.content, a.delay_time), heap |-> h]

Run_cid(h, a) == [ret |-> cid(a.cid), heap |-> h]

Run_options(h, a) == [ret |-> options(a.options), heap |-> h]

Run_platform(h, a) == [ret |-> platform(a.types), heap |-> h]

Run_audience(h, a) == audience(h, a.types)

NoCall == [op |-> "none", args |-> <<>>, ret |-> Pending]

\* ------------------------------------ Spec: every builder on its inputs

\* A call that has been issued and not yet run.
Issued(o, A) == op = o /\ args \in A /\ ret = Pending /\ heap = Heap0 /\ hist = NoCall

Init ==
    \/ Issued("notification", NotificationCalls)
    \/ Issued("ios", IosCalls)
    \/ Issued("android", AndroidCalls)
    \/ Issued("winphone", WinphoneCalls)
    \/ Issued("message", MessageCalls)
    \/ Issued("smsmessage", SmsmessageCalls)
    \/ Issued("cid", CidCalls)
    \/ Issued("options", OptionsCalls)
    \/ Issued("platform", PlatformCalls)
    \/ Issued("audience", AudienceCalls)

\* The issued call runs to its return or its exception.
Finish(o, r) ==
    /\ op = o
    /\ ret = Pending
    /\ ret' = r.ret
    /\ heap' = r.heap
    /\ UNCHANGED <<op, args, hist>>

Apply_notification == Finish("notification", Run_notification(heap, args))
Apply_ios == Finish("ios", Run_ios(heap, args))
Apply_android == Finish("android", Run_android(heap, args))
Apply_winphone == Finish("winphone", Run_winphone(heap, args))
Apply_message == Finish("message", Run_message(heap, args))
Apply_smsmessage == Finish("smsmessage", Run_smsmessage(heap, args))
Apply_cid == Finish("cid", Run_cid(heap, args))
Apply_options == Finish("options", Run_options(heap, args))
Apply_platform == Finish("platform", Run_platform(heap, args))
Apply_audience == Finish("audience", Run_audience(heap, args))

Next ==
    \/ Apply_notification
    \/ Apply_ios
    \/ Apply_android
    \/ Apply_winphone
    \/ Apply_message
    \/ Apply_smsmessage
    \/ Apply_cid
    \/ Apply_options
    \/ Apply_platform
    \/ Apply_audience

Spec == Init /\ [][Next]_vars

\* ------------------------ SpecBadge: ios on every bounded badge string

InitBadge == Issued("ios", IosBadgeCalls)

NextBadge == Apply_ios

SpecBadge == InitBadge /\ [][NextBadge]_vars

\* ------------------------- SpecSeq: builder calls one after another

SeqNotificationCalls ==
    [alert : {None, S_hi}, ios : {None, DictV(1)}, android : {None}, winphone : {None}]

SeqIosCalls ==
    [alert : {None, IntV(5)}, badge : {S_plus1, S_x}, sound : {None},
     content_available : {BoolV(FALSE)}, mutable_content : {BoolV(FALSE)},
     category : {None}, extras : {None, DictV(1)}, sound_disable : {BoolV(FALSE)}]

SeqAndroidCalls ==
    [alert : {S_empty, S_hi}, title : {None}, builder_id : {None},
     extras : {None, DictV(1)}, priority : {None}, category : {None},
     style : {None}, alert_type : {None}, big_text : {None}, inbox : {None},
     big_pic_path : {None}, uri_activity : {None}]

SeqWinphoneCalls ==
    [alert : {None, S_x}, title : {None, S_x}, _open_page : {None}, extras : {None}]

SeqMessageCalls ==
    [msg_content : {S_hi}, title : {None}, content_type : {None}, extras : {None, DictV(1)}]

SeqSmsmessageCalls == [content : {S_hi}, delay_time : {IntV(0), IntV(5)}]

SeqCidCalls == [cid : {S_empty, S_x}]

SeqOptionsCalls == [options : {DictV(1), DictV(6)}]

SeqPlatformCalls == [types : SeqsUpTo({S_all, S_ios, S_symbian}, MaxSeqTypes)]

SeqAudienceCalls ==
    [types : SeqsUpTo({S_all, DictV(1), DictV(4), DictV(7)}, MaxSeqTypes)]

InitSeq ==
    /\ op = "none"
    /\ args = <<>>
    /\ ret = Pending
    /\ heap = Heap0
    /\ hist = NoCall

\* The caller makes call o(a), which runs to its return or its exception;
\* hist keeps one call made so far, with its outcome.
Call(o, a, r) ==
    /\ op' = o
    /\ args' = a
    /\ ret' = r.ret
    /\ heap' = r.heap
    /\ hist' \in {hist, [op |-> o, args |-> a, ret |-> r.ret]}

Call_notification == \E a \in SeqNotificationCalls : Call("notification", a, Run_notification(heap, a))
Call_ios == \E a \in SeqIosCalls : Call("ios", a, Run_ios(heap, a))
Call_android == \E a \in SeqAndroidCalls : Call("android", a, Run_android(heap, a))
Call_winphone == \E a \in SeqWinphoneCalls : Call("winphone", a, Run_winphone(heap, a))
Call_message == \E a \in SeqMessageCalls : Call("message", a, Run_message(heap, a))
Call_smsmessage == \E a \in SeqSmsmessageCalls : Call("smsmessage", a, Run_smsmessage(heap, a))
Call_cid == \E a \in SeqCidCalls : Call("cid", a, Run_cid(heap, a))
Call_options == \E a \in SeqOptionsCalls : Call("options", a, Run_options(heap, a))
Call_platform == \E a \in SeqPlatformCalls : Call("platform", a, Run_platform(heap, a))
Call_audience == \E a \in SeqAudienceCalls : Call("audience", a, Run_audience(heap, a))

NextSeq ==
    \/ Call_notification
    \/ Call_ios
    \/ Call_android
    \/ Call_winphone
    \/ Call_message
    \/ Call_smsmessage
    \/ Call_cid
    \/ Call_options
    \/ Call_platform
    \/ Call_audience

SpecSeq == InitSeq /\ [][NextSeq]_vars

\* ------------------------------------------------------------- claims

\* The last call has run to its end.
Returned(o) == op = o /\ ret.st # "pending"

\* The keys among ks whose argument is not None.
Supplied(ks) == {k \in ks : args[k] # None}

\* The result mapping holds exactly the keys ks, each with its argument.
HoldsExactly(ks) ==
    /\ DOMAIN ret.map = ks
    /\ \A k \in ks : ret.map[k] = args[k]

WinphoneTypes == {"alert", "title", "_open_page"}

\* C1: winphone succeeds if and only if exactly one of alert, title and
\* open_page is non-null (whatever the values, falsy ones included, and
\* whatever extras is); otherwise it fails with ValueError.
C1_winphone_exactly_one_non_null ==
    Returned("winphone") =>
        /\ ret.st \in {"ok", "ValueError"}
        /\ ret.st = "ok" <=> Cardinality(Supplied(WinphoneTypes)) = 1

\* C9: a mapping returned by a successful winphone call holds exactly one
\* of the keys alert, title, _open_page, and extras iff extras was supplied.
C9_winphone_result_one_type_key ==
    (Returned("winphone") /\ ret.st = "ok") =>
        /\ Cardinality(DOMAIN ret.map \cap WinphoneTypes) = 1
        /\ DOMAIN ret.map \cap WinphoneTypes = Supplied(WinphoneTypes)
        /\ "extras" \in DOMAIN ret.map <=> args.extras # None

NotificationKeys == {"alert", "ios", "android", "winphone"}

\* C2: notification fails with ValueError exactly when all four arguments
\* are None; otherwise it returns a mapping whose keys are exactly the
\* supplied arguments, each mapped to the supplied value.
C2_notification_supplied_fields ==
    Returned("notification") =>
        IF Supplied(NotificationKeys) = {}
        THEN ret.st = "ValueError"
        ELSE ret.st = "ok" /\ ret.kind = "map" /\ HoldsExactly(Supplied(NotificationKeys))

\* C2 witness: a call with only a falsy alert supplied has returned.
C2_witness ==
    /\ Returned("notification")
    /\ args.alert = S_empty
    /\ Supplied(NotificationKeys) = {"alert"}
    /\ ret.st = "ok"

\* The badge strings the claim accepts: exactly auto, or one sign followed
\* by one or more decimal digits, nothing before or after.
ClaimedBadge(s) ==
    \/ s = <<"a", "u", "t", "o">>
    \/ /\ Len(s) >= 2
       /\ s[1] \in {"+", "-"}
       /\ \A i \in 2..Len(s) : s[i] \in {"0", "1", "2", "3", "4", "5", "6", "7", "8", "9"}

\* C3: a string badge is accepted iff it is exactly auto or [+-]digits, and
\* is then stored unchanged; an integer badge is accepted unchanged; a badge
\* that is neither fails.
C3_ios_badge_exact_pattern ==
    (Returned("ios") /\ args.alert = None /\ args.badge # None) =>
        CASE IsStr(args.badge) ->
                /\ ret.st = "ok" <=> ClaimedBadge(args.badge.s)
                /\ ret.st = "ok" => ret.map["badge"] = args.badge
          [] IsInt(args.badge) -> ret.st = "ok" /\ ret.map["badge"] = args.badge
          [] OTHER -> ret.st = "ValueError"

\* C4: a successful ios call has no sound key when sound_disable is true;
\* when it is false the sound key is the supplied sound, or "default" when
\* none was supplied.
C4_ios_sound ==
    (Returned("ios") /\ ret.st = "ok") =>
        IF Truthy(heap, args.sound_disable)
        THEN "sound" \notin DOMAIN ret.map
        ELSE /\ "sound" \in DOMAIN ret.map
             /\ ret.map["sound"] = IF args.sound # None THEN args.sound ELSE S_default

\* C4 witness: sound_disable with a sound supplied, and the call succeeded.
C4_witness ==
    /\ Returned("ios")
    /\ ret.st = "ok"
    /\ args.sound_disable = BoolV(TRUE)
    /\ args.sound = S_x

AndroidOptional ==
    {"title", "builder_id", "priority", "category", "style", "alert_type",
     "big_text", "inbox", "big_pic_path", "uri_activity", "extras"}

\* C5 as stated: the android result always holds alert, holds each optional
\* key iff its argument is not None, with the value unchanged, and the call
\* never fails.
C5_android_alert_always ==
    Returned("android") =>
        /\ ret.st = "ok"
        /\ "alert" \in DOMAIN ret.map
        /\ HoldsExactly({"alert"} \cup Supplied(AndroidOptional))

\* C5 amended: the android call never fails, and its result holds alert and
\* each optional key iff that argument is not None, with the value
\* unchanged (so "", 0 and false are kept, and an alert of None is left out).
C5_android_fields_iff_set ==
    Returned("android") =>
        /\ ret.st = "ok"
        /\ HoldsExactly(Supplied({"alert"} \cup AndroidOptional))

\* C5 witness: an empty alert and falsy optional values were supplied.
C5_witness ==
    /\ Returned("android")
    /\ args.alert = S_empty
    /\ args.builder_id = IntV(0)
    /\ args.uri_activity = BoolV(FALSE)
    /\ args.title = S_empty
    /\ "alert" \in DOMAIN ret.map

ClaimedPlatforms == {S_ios, S_android, S_winphone}

\* C6: platform returns 'all' for the single argument 'all'; otherwise it
\* fails naming the first element that is no platform, and with none such
\* returns the arguments as a list, order and duplicates kept.
C6_platform ==
    Returned("platform") =>
        LET types == args.types
            bad == {i \in 1..Len(types) : types[i] \notin ClaimedPlatforms}
        IN  IF types = <<S_all>>
            THEN ret = OkVal(S_all)
            ELSE IF bad # {}
                 THEN /\ ret.st = "ValueError"
                      /\ ret.bad = types[CHOOSE i \in bad : \A j \in bad : i <= j]
                 ELSE ret = OkList(types)

\* C6 witness: a list with a duplicate has been returned.
C6_witness ==
    /\ Returned("platform")
    /\ args.types = <<S_winphone, S_ios, S_winphone>>
    /\ ret.st = "ok"

ClaimedAudienceKeys ==
    {"tag", "tag_and", "tag_not", "alias", "registration_id", "segment", "abtest"}

\* The keys of the fragment (a dict object) t.
FragmentKeys(t) == {heap[t.i][j].k : j \in 1..Len(heap[t.i])}

\* The value fragment t holds under key k.
FragmentValue(t, k) ==
    LET d == heap[t.i] IN d[CHOOSE j \in 1..Len(d) : d[j].k = k].v

C8_ios_flags ==
    (Returned("ios") /\ ret.st = "ok") =>
        /\ "content-available" \in DOMAIN ret.map <=> Truthy(heap, args.content_available)
        /\ "mutable-content" \in DOMAIN ret.map <=> Truthy(heap, args.mutable_content)
        /\ \A k \in {"content-available", "mutable-content"} \cap DOMAIN ret.map :
              ret.map[k] = IntV(1)

\* C8 witness: one flag truthy and one falsy (0, not False), call succeeded.
C8_witness ==
    /\ Returned("ios")
    /\ ret.st = "ok"
    /\ args.content_available = IntV(0)
    /\ args.mutable_content = BoolV(TRUE)

====
